---- MODULE Spec2Model ----
(* Model of src/main.py: the /analyze handler, the cohort builder, the      *)
(* per-level cohort tasks run on a thread pool, the Redis player store and  *)
(* the risk aggregation.                                                    *)
(*                                                                          *)
(* Python values are tagged pairs <<tag, chars>> where chars is the         *)
(* sequence of characters str() prints: the int 1 is <<"int", <<"1">>>>,    *)
(* the string "1" is <<"str", <<"1">>>>, None is <<"none", <<"N","o","n","e">>>>. *)
(* Python dicts are TLA+ functions whose DOMAIN is the set of keys present. *)
(* Redis keys and patterns are sequences of characters.                     *)
EXTENDS Integers, Sequences, FiniteSets, TLC

\* ---------------------------------------------------------------- bounds
MaxIncoming == 10
MaxTicks == 1
MaxOutliers == 4
TickSeconds == 302400

\* ------------------------------------------------------- Python values
None == <<"none", <<"N", "o", "n", "e">>>>
IntV(c) == <<"int", <<c>>>>
StrV(c) == <<"str", <<c>>>>
EmptyDict == [k \in {} |-> None]

\* str(x) as used by the f-strings of lines 130 and 148
Str(v) == v[2]

\* truth value of a scalar: None, "" and 0 are false
Truthy(v) == /\ v[1] # "none"
             /\ v[2] # <<>>
             /\ ~(v[1] = "int" /\ v[2] = <<"0">>)

\* truth value of a dict: false only when it has no key
DictTruthy(d) == DOMAIN d # {}

\* d.get(k, default)
Get(d, k, default) == IF k \in DOMAIN d THEN d[k] ELSE default

\* a JSON value that is no object (a string, a number, a list, null) where a
\* dict is expected: it is carried under the key "#"; .get on it raises
Scalar(v) == [k \in {"#"} |-> v]
IsMapping(d) == "#" \notin DOMAIN d

\* --------------------------------------------------- program constants
min_players_required == 10
expiration_time == 7 * 24 * 60 * 60
thresholds == [High |-> <<20, 100>>, Medium |-> <<10, 100>>]
StatKeys == {"assists", "clutches", "deaths", "firstKills", "headshots", "kddiff", "kdr", "adr"}

\* ------------------------------------------------ extract (lines 105-125)
extract_and_process_profile_data(profile) ==
  LET metrics == Get(profile, "metrics", EmptyDict)
      stats == Get(metrics, "stats", EmptyDict)
  IN [k \in {"level"} \cup StatKeys |->
        IF k = "level" THEN Get(metrics, "level", None) ELSE Get(stats, k, IntV("0"))]

\* lines 106-107 raise AttributeError when profile, metrics or stats has no .get
ExtractRaises(profile) ==
  \/ ~IsMapping(profile)
  \/ ~IsMapping(Get(profile, "metrics", EmptyDict))
  \/ ~IsMapping(Get(Get(profile, "metrics", EmptyDict), "stats", EmptyDict))

\* the loop of process_profiles (lines 45-51) over profiles[i..]; ld is the
\* dict built so far, ord the insertion order of its keys; an exception of
\* line 46 ends the loop
RECURSIVE GroupFrom(_, _, _, _)
GroupFrom(profiles, i, ld, ord) ==
  IF i > Len(profiles) THEN [level_dict |-> ld, order |-> ord, raised |-> FALSE]
  ELSE IF ExtractRaises(profiles[i]) THEN [level_dict |-> ld, order |-> ord, raised |-> TRUE]
  ELSE LET data == extract_and_process_profile_data(profiles[i])
       IN IF DictTruthy(data)
          THEN LET level == data["level"]
               IN IF level \notin DOMAIN ld
                  THEN GroupFrom(profiles, i + 1,
                                 [l \in DOMAIN ld \cup {level} |->
                                    IF l = level THEN <<data>> ELSE ld[l]],
                                 Append(ord, level))
                  ELSE GroupFrom(profiles, i + 1,
                                 [ld EXCEPT ![level] = Append(@, data)], ord)
          ELSE GroupFrom(profiles, i + 1, ld, ord)

process_profiles(profiles) == GroupFrom(profiles, 1, [l \in {} |-> <<>>], <<>>)

\* ------------------------------------------------------- the Redis store
\* "user:" and ":" of the key format of lines 130 and 148
UserPrefix == <<"u", "s", "e", "r", ":">>
Colon == <<":">>

\* glob matching of KEYS: "*" matches any run of characters, every other
\* character of the patterns built here matches itself
RECURSIVE GlobMatch(_, _)
GlobMatch(p, s) ==
  IF p = <<>> THEN s = <<>>
  ELSE IF Head(p) = "*"
       THEN GlobMatch(Tail(p), s) \/ (s # <<>> /\ GlobMatch(p, Tail(s)))
       ELSE s # <<>> /\ Head(s) = Head(p) /\ GlobMatch(Tail(p), Tail(s))

\* a store is a function from the keys it holds to [val, exp]; exp is the
\* absolute time in seconds at which the entry expires
Live(st, t) == {k \in DOMAIN st : st[k].exp > t}

\* redis_client.keys(pattern): the live keys matching the pattern
RedisKeys(st, t, pattern) == {k \in Live(st, t) : GlobMatch(pattern, k)}

\* redis GET: the value, or None when the key is gone
NoValue == <<"nil", EmptyDict>>
RedisGet(st, t, k) == IF k \in Live(st, t) THEN st[k].val ELSE NoValue

RedisSetex_keepOld(st, t, k, seconds, v) ==
  [x \in Live(st, t) \cup {k} |->
     IF x \in Live(st, t) THEN st[x] ELSE [val |-> v, exp |-> t + seconds]]

\* redis SETEX key seconds value
RedisSetex(st, t, k, seconds, v) ==
  [x \in Live(st, t) \cup {k} |-> IF x = k THEN [val |-> v, exp |-> t + seconds] ELSE st[x]]

\* str(player) of line 149 and eval(player) of line 138: a stored string is
\* <<"repr", d>> when it is the printed form of the dict d, and
\* <<"text", EmptyDict>> for the empty string
Repr(d) == <<"repr", d>>
EmptyString == <<"text", EmptyDict>>
StrTruthy_any(v) == TRUE
StrTruthy(v) == v # NoValue /\ v # EmptyString
Eval(v) == v[2]

\* a set of keys as the list KEYS returns, in some fixed order
RECURSIVE SetToSeq(_)
SetToSeq(S) == IF S = {} THEN <<>>
               ELSE LET x == CHOOSE y \in S : TRUE IN <<x>> \o SetToSeq(S \ {x})

\* the keys found by line 131
fetch_keys(st, t, level) ==
  LET pattern == UserPrefix \o Str(level) \o Colon \o <<"*">>
  IN SetToSeq(RedisKeys(st, t, pattern))

\* the pipeline of lines 133-136 and the filter of line 138
RECURSIVE SelectSeq2(_, _, _, _)
SelectSeq2(st, t, keys, i) ==
  IF i > Len(keys) THEN <<>>
  ELSE LET player == RedisGet(st, t, keys[i])
       IN (IF StrTruthy(player) THEN <<Eval(player)>> ELSE <<>>)
          \o SelectSeq2(st, t, keys, i + 1)

fetch_players(st, t, keys) == SelectSeq2(st, t, keys, 1)

\* the key written by line 148
redis_key(level, steam_id) == UserPrefix \o Str(level) \o Colon \o Str(steam_id)

\* index of the first player at or after i that line 147 lets through, or 0
RECURSIVE NextSaved(_, _)
NextSaved(players, i) ==
  IF i > Len(players) THEN 0
  ELSE IF Truthy(Get(players[i], "id", None)) THEN i
       ELSE NextSaved(players, i + 1)

\* one SETEX of the loop of lines 145-149
save_one(st, t, level, player) ==
  RedisSetex(st, t, redis_key(level, Get(player, "id", None)), expiration_time,
             Repr(player))

\* ------------------------------------------------- scoring (lines 153-162)
\* fit_predict accepts the frame only when every row has the same columns
\* (a missing cell is NaN) and every cell but "level" is a number
FitOk(combined) ==
  \A i \in 1..Len(combined) :
     /\ DOMAIN combined[i] = DOMAIN combined[1]
     /\ \A k \in DOMAIN combined[i] \ {"level"} : combined[i][k][1] = "int"

\* the "outlier" column when the forest marks the rows of the set K: -1 for an
\* outlier, 1 for an inlier, one flag per row
apply_isolation_forest(combined, K) ==
  [i \in 1..Len(combined) |-> IF i \in K THEN -1 ELSE 1]

\* the forest is randomised: it may mark no row, a few rows, or all of them
OutlierSets(n) == {1..k : k \in {j \in 0..n : j <= MaxOutliers \/ j = n}}

\* line 73
num_outliers(outliers) == Cardinality({i \in 1..Len(outliers) : outliers[i] = -1})

\* ------------------------------------------ rationals <<numerator, denominator>>
RatAdd(a, b) == <<a[1] * b[2] + b[1] * a[2], a[2] * b[2]>>
RatMulInt(a, n) == <<a[1] * n, a[2]>>
RatDivInt(a, n) == <<a[1], a[2] * n>>
RatGeq(a, b) == a[1] * b[2] >= b[1] * a[2]
Zero == <<0, 1>>

\* ------------------------------------- process_level results (lines 70-85)
NoResult == <<-1, -1, Zero>>
ScoredResult_dedup(combined, outliers) ==
  LET n_outliers == num_outliers(outliers)
      num_players == Cardinality({combined[i] : i \in 1..Len(combined)})
  IN <<n_outliers, num_players, <<n_outliers, num_players>>>>
ScoredResult(combined, outliers) ==
  LET n_outliers == num_outliers(outliers)
      num_players == Len(combined)
  IN <<n_outliers, num_players, <<n_outliers, num_players>>>>
SkippedResult == <<0, 0, Zero>>

EnoughPlayers_always(combined_players) == TRUE
EnoughPlayers_strict(combined) == Len(combined) > min_players_required

\* line 70
EnoughPlayers(combined) == Len(combined) >= min_players_required

\* ------------------------------------------- aggregation (lines 90-102)
RECURSIVE Accumulate_unweighted(_, _, _, _)
Accumulate_unweighted(results, i, total_players, overall_risk_score) ==
  IF i > Len(results) THEN [total_players |-> total_players,
                            overall_risk_score |-> overall_risk_score]
  ELSE IF results[i][2] # 0
       THEN Accumulate_unweighted(results, i + 1, total_players + results[i][2],
                                  RatAdd(overall_risk_score, results[i][3]))
       ELSE Accumulate_unweighted(results, i + 1, total_players, overall_risk_score)

RECURSIVE Accumulate(_, _, _, _)
Accumulate(results, i, total_players, overall_risk_score) ==
  IF i > Len(results) THEN [total_players |-> total_players,
                            overall_risk_score |-> overall_risk_score]
  ELSE IF results[i][2] # 0
       THEN Accumulate(results, i + 1, total_players + results[i][2],
                       RatAdd(overall_risk_score, RatMulInt(results[i][3], results[i][2])))
       ELSE Accumulate(results, i + 1, total_players, overall_risk_score)

OverallRisk_undivided(acc) == acc.overall_risk_score

\* line 95
OverallRisk(acc) ==
  IF acc.total_players # 0 THEN RatDivInt(acc.overall_risk_score, acc.total_players)
  ELSE Zero

Classify_strict(overall_risk) ==
  IF ~RatGeq(thresholds.High, overall_risk) THEN "High"
  ELSE IF ~RatGeq(thresholds.Medium, overall_risk) THEN "Medium"
  ELSE "Low"

\* lines 97-102
Classify(overall_risk) ==
  IF RatGeq(overall_risk, thresholds.High) THEN "High"
  ELSE IF RatGeq(overall_risk, thresholds.Medium) THEN "Medium"
  ELSE "Low"

\* ------------------------------------------------------------- inputs
Absent == <<"absent", <<>>>>
ReqLevels == {IntV("1"), StrV("1"), StrV("2"), Absent}
GoodStats == [k \in {"kdr"} |-> IntV("1")]
BadStats == [k \in {"kdr"} |-> StrV("x")]

\* a raw profile: "id" and "metrics.level" are optional keys
RawProfile(id, lv, stats) ==
  [k \in (IF id = None THEN {} ELSE {"id"}) \cup {"metrics"} |->
     IF k = "id" THEN id
     ELSE [m \in (IF lv = Absent THEN {} ELSE {"level"}) \cup {"stats"} |->
             IF m = "level" THEN lv ELSE stats]]

\* a profile whose metrics is a string
MalformedProfile == [k \in {"metrics"} |-> Scalar(StrV("x"))]

\* c profiles of one level; the odd ones carry a player id; the last one has
\* a non-numeric stat when kind is "stat" and is malformed when it is "shape"
Run(lv, c, kind) ==
  [i \in 1..c |->
     IF kind = "shape" /\ i = c THEN MalformedProfile
     ELSE RawProfile(IF i % 4 = 1 THEN StrV("a") ELSE IF i % 4 = 3 THEN StrV("b") ELSE None,
                     lv,
                     IF kind = "stat" /\ i = c THEN BadStats ELSE GoodStats)]

NoBody == <<FALSE, EmptyDict>>
Body(d) == <<TRUE, d>>
Requests ==
  {NoBody, Body(EmptyDict), Body([k \in {"other"} |-> <<>>])}
  \cup {Body([k \in {"profiles"} |-> Run(lA, cA, "ok") \o Run(lB, cB[1], cB[2])]) :
          <<lA, cA, lB, cB>> \in
             ReqLevels \X ({0} \cup ((min_players_required - 1)..MaxIncoming))
               \X {StrV("1"), Absent}
               \X {<<0, "ok">>, <<1, "ok">>, <<1, "stat">>, <<1, "shape">>,
                   <<MaxIncoming, "ok">>}}

\* records as an earlier request left them in the store
Cached(lv) == extract_and_process_profile_data(RawProfile(None, lv, GoodStats))
CachedWithId(lv, id) ==
  [k \in DOMAIN Cached(lv) \cup {"id"} |-> IF k = "id" THEN id ELSE Cached(lv)[k]]
Entry(v, e) == [val |-> v, exp |-> e]
KeyOf(lv, id) == redis_key(lv, StrV(id))
EmptyStore == [k \in {} |-> Entry(NoValue, 0)]
StoreOf(pairs) == [k \in {q[1] : q \in pairs} |-> (CHOOSE q \in pairs : q[1] = k)[2]]
InitStores ==
  LET a1 == <<KeyOf(IntV("1"), "a"), Entry(Repr(Cached(IntV("1"))), 2 * TickSeconds)>>
      b1 == <<KeyOf(IntV("1"), "b"), Entry(Repr(Cached(IntV("1"))), TickSeconds)>>
      e1 == <<KeyOf(IntV("1"), "a"), Entry(EmptyString, 2 * TickSeconds)>>
      i1 == <<KeyOf(IntV("1"), "a"),
              Entry(Repr(CachedWithId(IntV("1"), StrV("a"))), 2 * TickSeconds)>>
      a2 == <<KeyOf(StrV("2"), "a"), Entry(Repr(Cached(StrV("2"))), 2 * TickSeconds)>>
      an == <<KeyOf(None, "a"), Entry(Repr(Cached(None)), 2 * TickSeconds)>>
  IN {EmptyStore, StoreOf({a1, b1, a2, an}), StoreOf({e1, b1, a2}),
      StoreOf({i1, b1})}

\* ------------------------------------------------------------- state
VARIABLES request, pc, level_dict, order, task, store, now, storeUp, response, agg,
          calls, written
vars == <<request, pc, level_dict, order, task, store, now, storeUp, response, agg,
          calls, written>>

NoResponse == [status |-> 0, risk |-> "", error |-> ""]
NoAgg == [total_players |-> 0, overall_risk_score |-> Zero, overall_risk |-> Zero]
NoCalls == [keys |-> 0, get |-> 0, setex |-> 0, score |-> 0]

\* a thread running fn on (level, players)
NewTask(fn, level, players, start) ==
  [fn |-> fn, level |-> level, players |-> players, pc |-> start, keys |-> <<>>,
   redis_players |-> <<>>, combined |-> <<>>, scored |-> FALSE, result |-> NoResult,
   idx |-> 1]

Init ==
  /\ request \in Requests
  /\ store \in InitStores
  /\ pc = "recv"
  /\ level_dict = [l \in {} |-> <<>>]
  /\ order = <<>>
  /\ task = <<>>
  /\ now = 0
  /\ storeUp = TRUE
  /\ response = NoResponse
  /\ agg = NoAgg
  /\ calls = NoCalls
  /\ written = [k \in {} |-> Entry(NoValue, 0)]

\* ------------------------------------------------------------ actions
BodyRejected_noneOnly(data) == ~data[1]

\* line 28: not data or "profiles" not in data
BodyRejected(data) == ~data[1] \/ ~DictTruthy(data[2]) \/ "profiles" \notin DOMAIN data[2]

\* analyze_metrics up to the fan-out of line 88: the body check of line 28,
\* process_profiles (a missing key or an exception at line 33 goes to line 37),
\* and one task per item of level_dict
analyze_metrics ==
  /\ pc = "recv"
  /\ IF BodyRejected(request)
     THEN /\ response' = [status |-> 400, risk |-> "", error |-> "No data provided"]
          /\ pc' = "done"
          /\ UNCHANGED <<level_dict, order, task>>
     ELSE IF "profiles" \notin DOMAIN request[2]
     THEN /\ response' = [status |-> 500, risk |-> "", error |-> "exception"]
          /\ pc' = "done"
          /\ UNCHANGED <<level_dict, order, task>>
     ELSE IF process_profiles(request[2]["profiles"]).raised
     THEN /\ response' = [status |-> 500, risk |-> "", error |-> "exception"]
          /\ pc' = "done"
          /\ UNCHANGED <<level_dict, order, task>>
     ELSE LET g == process_profiles(request[2]["profiles"])
          IN /\ level_dict' = g.level_dict
             /\ order' = g.order
             /\ task' = [i \in 1..Len(g.order) |->
                           NewTask("process_level", g.order[i],
                                   g.level_dict[g.order[i]], "keys")]
             /\ pc' = "fanout"
             /\ UNCHANGED response
  /\ UNCHANGED <<request, store, now, storeUp, agg, calls, written>>

\* line 131: KEYS; a store that is down makes the call raise
fetch_keys_step(i) ==
  /\ pc \in {"fanout", "api"}
  /\ task[i].pc = "keys"
  /\ calls' = [calls EXCEPT !.keys = @ + 1]
  /\ IF storeUp
     THEN task' = [task EXCEPT ![i].keys = fetch_keys(store, now, task[i].level),
                               ![i].pc = "get"]
     ELSE task' = [task EXCEPT ![i].pc = "raised"]
  /\ UNCHANGED <<request, pc, level_dict, order, store, now, storeUp, response, agg,
                 written>>

\* lines 133-140: the pipeline of GETs and the filter; fetch returns here, and
\* process_level goes on to line 66
fetch_get_step(i) ==
  /\ pc \in {"fanout", "api"}
  /\ task[i].pc = "get"
  /\ calls' = [calls EXCEPT !.get = @ + 1]
  /\ IF storeUp
     THEN task' = [task EXCEPT ![i].redis_players = fetch_players(store, now, task[i].keys),
                               ![i].pc = IF task[i].fn = "fetch" THEN "done" ELSE "score"]
     ELSE task' = [task EXCEPT ![i].pc = "raised"]
  /\ UNCHANGED <<request, pc, level_dict, order, store, now, storeUp, response, agg,
                 written>>

\* the randomised forest of line 155
RandomForest(combined) == OutlierSets(Len(combined))

\* a forest whose outcome is a function of the rows it is given
DetForest_random(combined) == OutlierSets(Len(combined))
DetForest(combined) == {{i \in 1..Len(combined) : combined[i] # combined[1]}}

\* lines 66-75 and 81-85: merge, the floor, the forest, which marks one of
\* the sets of rows that the forest in use allows
score_with(i, seeded) ==
  /\ pc = "fanout"
  /\ task[i].pc = "score"
  /\ LET combined_players == task[i].players \o task[i].redis_players
     IN IF EnoughPlayers(combined_players)
        THEN /\ calls' = [calls EXCEPT !.score = @ + 1]
             /\ IF FitOk(combined_players)
                THEN \E K \in (IF seeded THEN DetForest(combined_players)
                              ELSE RandomForest(combined_players)) :
                       task' = [task EXCEPT
                                  ![i].combined = combined_players,
                                  ![i].scored = TRUE,
                                  ![i].result = ScoredResult(combined_players,
                                       apply_isolation_forest(combined_players, K)),
                                  ![i].pc = "save"]
                ELSE task' = [task EXCEPT ![i].combined = combined_players,
                                          ![i].scored = TRUE,
                                          ![i].pc = "raised"]
        ELSE /\ task' = [task EXCEPT ![i].combined = combined_players,
                                     ![i].result = SkippedResult,
                                     ![i].pc = "done"]
             /\ UNCHANGED calls
  /\ UNCHANGED <<request, pc, level_dict, order, store, now, storeUp, response, agg,
                 written>>

score_step(i) == score_with(i, FALSE)

\* a save that writes the merged view back
SavedPlayers_combined(t) == t.combined

\* line 76 and line 143: the records the save loop runs over
SavedPlayers(t) == t.players

\* lines 145-150: the loop runs to its next SETEX, or to its end
save_step(i) ==
  /\ pc \in {"fanout", "api"}
  /\ task[i].pc = "save"
  /\ LET j == NextSaved(SavedPlayers(task[i]), task[i].idx)
     IN IF j = 0
        THEN /\ task' = [task EXCEPT ![i].pc = "done"]
             /\ UNCHANGED <<store, calls, written>>
        ELSE /\ calls' = [calls EXCEPT !.setex = @ + 1]
             /\ IF storeUp
                THEN /\ store' = save_one(store, now, task[i].level, SavedPlayers(task[i])[j])
                     /\ written' =
                          [k \in DOMAIN written
                                  \cup {redis_key(task[i].level, Get(SavedPlayers(task[i])[j], "id", None))} |->
                             IF k = redis_key(task[i].level, Get(SavedPlayers(task[i])[j], "id", None))
                             THEN Entry(Repr(SavedPlayers(task[i])[j]), now)
                             ELSE written[k]]
                     /\ task' = [task EXCEPT ![i].idx = j + 1]
                ELSE /\ task' = [task EXCEPT ![i].pc = "raised"]
                     /\ UNCHANGED <<store, written>>
  /\ UNCHANGED <<request, pc, level_dict, order, now, storeUp, response, agg>>

\* the pool has joined (line 88 leaves the with block); lines 90-102 and the
\* response of lines 35-39: reading the result of a task that raised raises
Results == [i \in 1..Len(task) |-> task[i].result]

aggregate_partial ==
  /\ pc = "fanout"
  /\ \A i \in 1..Len(task) : task[i].pc \in {"done", "raised"}
  /\ LET acc == Accumulate([i \in 1..Len(task) |->
                              IF task[i].pc = "raised" THEN SkippedResult
                              ELSE task[i].result], 1, 0, Zero)
     IN /\ agg' = [total_players |-> acc.total_players,
                   overall_risk_score |-> acc.overall_risk_score,
                   overall_risk |-> OverallRisk(acc)]
        /\ response' = [status |-> 200, risk |-> Classify(OverallRisk(acc)), error |-> ""]
  /\ pc' = "done"
  /\ UNCHANGED <<request, level_dict, order, task, store, now, storeUp, calls, written>>

\* aggregation that does not wait for the cohort tasks
aggregate_early ==
  /\ pc = "fanout"
  /\ IF \E i \in 1..Len(task) : task[i].pc = "raised"
     THEN /\ response' = [status |-> 500, risk |-> "", error |-> "exception"]
          /\ UNCHANGED agg
     ELSE LET acc == Accumulate([i \in 1..Len(task) |->
                                   IF task[i].result = NoResult THEN SkippedResult
                                   ELSE task[i].result], 1, 0, Zero)
          IN /\ agg' = [total_players |-> acc.total_players,
                        overall_risk_score |-> acc.overall_risk_score,
                        overall_risk |-> OverallRisk(acc)]
             /\ response' = [status |-> 200, risk |-> Classify(OverallRisk(acc)),
                             error |-> ""]
  /\ pc' = "done"
  /\ UNCHANGED <<request, level_dict, order, task, store, now, storeUp, calls, written>>

\* aggregation that waits for every task to return a result
aggregate_waitsResults ==
  /\ pc = "fanout"
  /\ \A i \in 1..Len(task) : task[i].pc = "done"
  /\ LET acc == Accumulate(Results, 1, 0, Zero)
     IN /\ agg' = [total_players |-> acc.total_players,
                   overall_risk_score |-> acc.overall_risk_score,
                   overall_risk |-> OverallRisk(acc)]
        /\ response' = [status |-> 200, risk |-> Classify(OverallRisk(acc)), error |-> ""]
  /\ pc' = "done"
  /\ UNCHANGED <<request, level_dict, order, task, store, now, storeUp, calls, written>>

aggregate ==
  /\ pc = "fanout"
  /\ \A i \in 1..Len(task) : task[i].pc \in {"done", "raised"}
  /\ IF \E i \in 1..Len(task) : task[i].pc = "raised"
     THEN /\ response' = [status |-> 500, risk |-> "", error |-> "exception"]
          /\ UNCHANGED agg
     ELSE LET acc == Accumulate(Results, 1, 0, Zero)
          IN /\ agg' = [total_players |-> acc.total_players,
                        overall_risk_score |-> acc.overall_risk_score,
                        overall_risk |-> OverallRisk(acc)]
             /\ response' = [status |-> 200, risk |-> Classify(OverallRisk(acc)),
                             error |-> ""]
  /\ pc' = "done"
  /\ UNCHANGED <<request, level_dict, order, task, store, now, storeUp, calls, written>>

\* time passes; Redis drops the entries that have expired
Tick ==
  /\ pc \in {"fanout", "api"}
  /\ now < MaxTicks * TickSeconds
  /\ now' = now + TickSeconds
  /\ store' = [k \in Live(store, now + TickSeconds) |-> store[k]]
  /\ UNCHANGED <<request, pc, level_dict, order, task, storeUp, response, agg, calls,
                 written>>

\* the store becomes unreachable
Outage ==
  /\ pc \in {"fanout", "api"}
  /\ storeUp
  /\ storeUp' = FALSE
  /\ UNCHANGED <<request, pc, level_dict, order, task, store, now, response, agg, calls,
                 written>>

Next ==
  \/ analyze_metrics
  \/ \E i \in 1..Len(task) : fetch_keys_step(i)
  \/ \E i \in 1..Len(task) : fetch_get_step(i)
  \/ \E i \in 1..Len(task) : score_step(i)
  \/ \E i \in 1..Len(task) : save_step(i)
  \/ aggregate
  \/ Tick
  \/ Outage

Spec == Init /\ [][Next]_vars

\* ------------------------------------------- the store functions called directly
\* fetch_players_from_redis and save_players_to_redis run by three threads on
\* an empty store: two saves and one fetch, any levels, interleaved
ApiLevels == {IntV("1"), StrV("1"), StrV("2")}
Player(lv, id, v) ==
  [k \in DOMAIN Cached(lv) \cup {"id"} |->
     IF k = "id" THEN id ELSE IF k = "kdr" THEN IntV(v) ELSE Cached(lv)[k]]
ApiPlayers(lv) ==
  {<<Player(lv, StrV("a"), "1")>>,
   <<Player(lv, StrV("a"), "2"), Cached(lv), Player(lv, StrV("b"), "1")>>}
SaveCalls == {NewTask("save", lv, ps, "save") : <<lv, ps>> \in
                {<<l, q>> \in ApiLevels \X UNION {ApiPlayers(l2) : l2 \in ApiLevels} :
                   q \in ApiPlayers(l)}}
FetchCalls == {NewTask("fetch", lv, <<>>, "keys") : lv \in ApiLevels}

InitStore ==
  /\ request = NoBody
  /\ store = EmptyStore
  /\ pc = "api"
  /\ level_dict = [l \in {} |-> <<>>]
  /\ order = <<>>
  /\ task \in {<<s1, s2, f>> : <<s1, s2, f>> \in SaveCalls \X SaveCalls \X FetchCalls}
  /\ now = 0
  /\ storeUp = TRUE
  /\ response = NoResponse
  /\ agg = NoAgg
  /\ calls = NoCalls
  /\ written = [k \in {} |-> Entry(NoValue, 0)]

NextStore ==
  \/ \E i \in 1..Len(task) : fetch_keys_step(i)
  \/ \E i \in 1..Len(task) : fetch_get_step(i)
  \/ \E i \in 1..Len(task) : save_step(i)
  \/ Tick
  \/ Outage

SpecStore == InitStore /\ [][NextStore]_vars

\* --------------------------------- calculate_and_store_risk called directly
\* level_dict holds records that carry a numeric "id" column (0 where the
\* player has none), as do the records already in the store: the only way the
\* save loop of lines 145-149 reaches its SETEX from process_level
RiskLevels == {IntV("1"), StrV("1"), StrV("2")}
RiskCohort(lv, c) ==
  [i \in 1..c |->
     Player(lv, IF i = 1 THEN IntV("7") ELSE IntV("0"), "1")]
RiskInputs ==
  {<<<<lA, RiskCohort(lA, cA)>>>> :
      <<lA, cA>> \in RiskLevels \X ({1} \cup ((min_players_required - 1)..MaxIncoming))}
  \cup {<<<<lA, RiskCohort(lA, cA)>>, <<lB, RiskCohort(lB, cB)>>>> :
          <<lA, cA, lB, cB>> \in
             {IntV("1")} \X {1, MaxIncoming}
               \X {StrV("1"), StrV("2")} \X {1, MaxIncoming}}
RiskStores ==
  {EmptyStore,
   StoreOf({<<redis_key(IntV("1"), IntV("7")),
              Entry(Repr(Player(IntV("1"), IntV("7"), "2")), 2 * TickSeconds)>>,
            <<redis_key(IntV("1"), IntV("9")),
              Entry(Repr(Player(IntV("1"), IntV("9"), "1")), TickSeconds)>>,
            <<redis_key(StrV("2"), IntV("9")),
              Entry(Repr(Player(StrV("2"), IntV("9"), "1")), 2 * TickSeconds)>>})}

InitRisk ==
  /\ request = NoBody
  /\ store \in RiskStores
  /\ pc = "fanout"
  /\ \E input \in RiskInputs :
       /\ order = [i \in 1..Len(input) |-> input[i][1]]
       /\ level_dict = [l \in {input[i][1] : i \in 1..Len(input)} |->
                          (CHOOSE q \in {input[i] : i \in 1..Len(input)} : q[1] = l)[2]]
       /\ task = [i \in 1..Len(input) |->
                    NewTask("process_level", input[i][1], input[i][2], "keys")]
  /\ now = 0
  /\ storeUp = TRUE
  /\ response = NoResponse
  /\ agg = NoAgg
  /\ calls = NoCalls
  /\ written = [k \in {} |-> Entry(NoValue, 0)]

NextRisk ==
  \/ \E i \in 1..Len(task) : fetch_keys_step(i)
  \/ \E i \in 1..Len(task) : fetch_get_step(i)
  \/ \E i \in 1..Len(task) : score_step(i)
  \/ \E i \in 1..Len(task) : save_step(i)
  \/ aggregate
  \/ Tick
  \/ Outage

SpecRisk == InitRisk /\ [][NextRisk]_vars

\* ------------------------------------------------------------ SpecDet
\* The request pipeline with a scorer whose outcome is a function of the rows
\* it is given, a store that stays up and a clock that stands still: what is
\* left to vary is the interleaving of the cohort tasks.
score_step_det(i) == score_with(i, TRUE)

NextDet ==
  \/ analyze_metrics
  \/ \E i \in 1..Len(task) : fetch_keys_step(i)
  \/ \E i \in 1..Len(task) : fetch_get_step(i)
  \/ \E i \in 1..Len(task) : score_step_det(i)
  \/ \E i \in 1..Len(task) : save_step(i)
  \/ aggregate

SpecDet == Init /\ [][NextDet]_vars

\* ------------------------------------------------------------ SpecLive
\* The request pipeline under fair scheduling: a step of the handler or of a
\* pool thread that can be taken is eventually taken. The clock and the
\* outage belong to the environment and are under no fairness condition.
\* Which rows the forest marks has no bearing on which step comes next, so
\* the scorer is the one of SpecDet.
Program ==
  \/ analyze_metrics
  \/ \E i \in 1..Len(task) :
        fetch_keys_step(i) \/ fetch_get_step(i) \/ score_step_det(i) \/ save_step(i)
  \/ aggregate

NextLive ==
  \/ NextDet
  \/ Tick
  \/ Outage

SpecLive == Init /\ [][NextLive]_vars /\ WF_vars(Program)

\* ------------------------------------------------------------ properties
Merged(t) == Len(t.players) + Len(t.redis_players)
Cohorts == {i \in 1..Len(task) : task[i].fn = "process_level"}
Returned(i) == task[i].pc \in {"save", "done"}

RECURSIVE SumResults(_, _)
SumResults(i, f) ==
  IF i > Len(task) THEN 0
  ELSE (IF Returned(i) THEN task[i].result[f] ELSE 0) + SumResults(i + 1, f)
TotalOutliers == SumResults(1, 1)
TotalPlayers == SumResults(1, 2)
Answered == pc = "done" /\ response.status = 200

\* C1: a cohort whose merged size (incoming + fetched) is below 10 returns
\* (0, 0) and is never given to the scorer; one of merged size 10 or more is
\* given to the scorer and returns its merged size as the player count
C1_SampleFloor ==
  /\ \A i \in Cohorts :
        /\ task[i].scored => Merged(task[i]) >= 10
        /\ Returned(i) =>
              IF Merged(task[i]) < 10
              THEN task[i].result[1] = 0 /\ task[i].result[2] = 0 /\ ~task[i].scored
              ELSE task[i].scored /\ task[i].result[2] = Merged(task[i])
  /\ calls.score = Cardinality({i \in Cohorts : task[i].scored})
C1_Witness ==
  /\ \E i \in Cohorts : /\ task[i].pc = "done" /\ Merged(task[i]) = 10
                         /\ Len(task[i].redis_players) > 0 /\ task[i].result[2] = 10
  /\ \E i \in Cohorts : /\ task[i].pc = "done" /\ Merged(task[i]) < 10
                         /\ Len(task[i].redis_players) > 0 /\ task[i].result[2] = 0

C3_RatioRange ==
  /\ \A i \in Cohorts : Returned(i) =>
        0 <= task[i].result[1] /\ task[i].result[1] <= task[i].result[2]
  /\ Answered =>
        /\ agg.overall_risk[2] > 0
        /\ 0 <= agg.overall_risk[1] /\ agg.overall_risk[1] <= agg.overall_risk[2]
        /\ (\A i \in Cohorts : Merged(task[i]) < 10) =>
              agg.overall_risk[1] = 0 /\ response.risk = "Low"
C3_Witness ==
  /\ Answered /\ Cohorts # {}
  /\ \A i \in Cohorts : Merged(task[i]) < 10
  /\ response.risk = "Low"

Profiles == IF request[1] /\ "profiles" \in DOMAIN request[2]
            THEN request[2]["profiles"] ELSE <<>>
HasLevel(p) == "level" \in DOMAIN Get(p, "metrics", EmptyDict)
RECURSIVE Grouped(_)
Grouped(S) == IF S = {} THEN 0
              ELSE LET l == CHOOSE x \in S : TRUE
                   IN Len(level_dict[l]) + Grouped(S \ {l})

\* C4: a profile without metrics.level is placed in no cohort: the cohorts
\* hold exactly the profiles that have a level, no record of a cohort lacks
\* one, and no task is started for the missing level
C4_DroppedProfile ==
  pc \in {"fanout", "done"} =>
    /\ Grouped(DOMAIN level_dict) =
          Cardinality({j \in 1..Len(Profiles) : HasLevel(Profiles[j])})
    /\ \A i \in Cohorts : task[i].level # None

\* C5: after a request in which a cohort was scored, each incoming profile of
\* the cohort that carries a player id has an entry user:<level>:<id> holding
\* a feature record of that player and expiring 604800 s after it was written
C5_SavedWithTtl ==
  (Answered /\ now < 604800) =>
    \A i \in Cohorts : Merged(task[i]) >= 10 =>
      \A j \in 1..Len(Profiles) :
        ("id" \in DOMAIN Profiles[j]
           /\ extract_and_process_profile_data(Profiles[j])["level"] = task[i].level) =>
          LET k == redis_key(task[i].level, Profiles[j]["id"])
          IN /\ k \in DOMAIN store
             /\ k \in DOMAIN written
             /\ store[k].exp = written[k].exp + 604800
             /\ \E m \in 1..Len(Profiles) :
                   /\ Get(Profiles[m], "id", None) = Profiles[j]["id"]
                   /\ store[k].val = Repr(extract_and_process_profile_data(Profiles[m]))

RECURSIVE SumScored(_, _)
SumScored(i, outliers) ==
  IF i > Len(task) THEN 0
  ELSE (IF Merged(task[i]) >= 10
        THEN (IF outliers THEN task[i].result[1] ELSE Merged(task[i])) ELSE 0)
       + SumScored(i + 1, outliers)

\* C8: the overall ratio is (sum of outlier counts) / (sum of merged sizes)
\* over the cohorts at or above the floor, and 0 when there is none; cohorts
\* below the floor add to neither sum
C8_WeightedMean ==
  Answered =>
    LET o == SumScored(1, TRUE)
        n == SumScored(1, FALSE)
    IN /\ agg.total_players = n
       /\ IF n = 0 THEN agg.overall_risk[1] = 0
          ELSE agg.overall_risk[1] * n = o * agg.overall_risk[2]
C8_Witness ==
  /\ Answered
  /\ \E i \in Cohorts : Merged(task[i]) < 10 /\ Len(task[i].players) > 0
  /\ \E i \in Cohorts : Merged(task[i]) >= 10 /\ task[i].result[1] > 0
  /\ response.risk = "Medium"

\* C9: a request with no body or no profiles key gets an error response and
\* no cohort processing: no task, no store call, no scorer call, and the
\* store is left as it was
NoProfilesKey == ~request[1] \/ "profiles" \notin DOMAIN request[2]
C9_InputError ==
  /\ [](NoProfilesKey =>
          /\ pc \in {"recv", "done"}
          /\ Len(task) = 0
          /\ calls = NoCalls
          /\ DOMAIN written = {}
          /\ pc = "done" => /\ response.status = 400
                            /\ response.risk = ""
                            /\ response.error # "")
  /\ [][NoProfilesKey => store' = store]_vars
C9_Witness ==
  /\ request[1] /\ DOMAIN request[2] # {} /\ NoProfilesKey
  /\ pc = "done" /\ response.status = 400

\* C10: a failing store fetch does not abort the cohort task, and the request
\* still ends in a risk verdict
FetchFailed(i) == task[i].pc = "raised" /\ ~task[i].scored
C10_FetchDegrades ==
  /\ \A i \in Cohorts : ~FetchFailed(i)
  /\ (pc = "done" /\ ~NoProfilesKey /\ \A i \in Cohorts : task[i].pc # "raised" \/ FetchFailed(i))
       => response.status = 200

Fetches == {i \in 1..Len(task) : task[i].fn = "fetch"}
Saves == {i \in 1..Len(task) : task[i].fn = "save"}
Pattern(lv) == UserPrefix \o Str(lv) \o Colon \o <<"*">>

\* C6: for distinct levels, a fetch of one level returns no record saved
\* under another, and a save under one level writes no key that the fetch of
\* another level reads, whatever the interleaving
C6_NoCrossLevel ==
  /\ \A i \in Fetches : task[i].pc = "done" =>
        \A j \in 1..Len(task[i].redis_players) :
           task[i].redis_players[j]["level"] = task[i].level
  /\ \A k \in DOMAIN written : \A lv \in ApiLevels :
        GlobMatch(Pattern(lv), k) => Eval(written[k].val)["level"] = lv

\* C7: the store holds at most one entry per (level, player id), and a held
\* entry is the last write to its key: that write's value, expiring 604800 s
\* after it; a second save of a key adds no entry
C7_LastWriteWins ==
  /\ \A k \in DOMAIN store :
        /\ k \in DOMAIN written
        /\ store[k].val = written[k].val
        /\ store[k].exp = written[k].exp + 604800
  /\ Cardinality(DOMAIN store) <=
        Cardinality({<<Str(task[i].level), task[i].players[j]["id"]>> :
                       <<i, j>> \in {<<i2, j2>> \in Saves \X (1..3) :
                                       /\ j2 <= Len(task[i2].players)
                                       /\ j2 < task[i2].idx
                                       /\ "id" \in DOMAIN task[i2].players[j2]}})
C7_Witness ==
  /\ task[1].fn = "save" /\ task[2].fn = "save"
  /\ task[1].level = task[2].level
  /\ task[1].pc = "done" /\ task[2].pc = "done"
  /\ task[1].players[1] # task[2].players[1]
  /\ task[1].players[1]["id"] = task[2].players[1]["id"]
  /\ redis_key(task[1].level, task[1].players[1]["id"]) \in DOMAIN store
  /\ now > 0

\* C11: a failing save does not abort the cohort task: the task still returns
\* its result and the call still ends in a risk verdict
SaveFailed(i) == task[i].pc = "raised" /\ task[i].result # NoResult
C11_SaveSwallowed ==
  /\ \A i \in Cohorts : ~SaveFailed(i)
  /\ (pc = "done" /\ \A i \in Cohorts : task[i].pc # "raised" \/ SaveFailed(i))
       => response.status = 200

\* C12: every finished request has exactly one of a risk verdict and an error;
\* when any cohort task raised it is the error, and a verdict is given only
\* when every cohort task returned
C12_AllOrNothing ==
  pc = "done" =>
    /\ response.status \in {200, 400, 500}
    /\ (response.risk # "") # (response.error # "")
    /\ (response.status = 200) = (response.risk # "")
    /\ (\E i \in Cohorts : task[i].pc = "raised") =>
          response.risk = "" /\ response.status = 500
    /\ response.risk # "" => \A i \in Cohorts : task[i].pc = "done"
C12_Witness ==
  /\ pc = "done" /\ response.status = 500 /\ response.risk = ""
  /\ \E i \in Cohorts : task[i].pc = "raised" /\ task[i].scored
  /\ \E i \in Cohorts : task[i].pc = "done" /\ task[i].scored

\* C13: a profile whose metrics or stats is no mapping is skipped: the other
\* profiles of the request are still grouped and processed, and the request
\* does not end in an error because of it
C13_MalformedSkipped ==
  (pc = "done" /\ \E j \in 1..Len(Profiles) : ExtractRaises(Profiles[j])) =>
    /\ (\E j \in 1..Len(Profiles) : ~ExtractRaises(Profiles[j])) => Len(task) > 0
    /\ (\A i \in Cohorts : task[i].pc = "done") => response.status = 200

\* C14: one task is started per distinct level of the request; the totals are
\* computed only once every cohort task has finished; every cohort's result
\* is in the totals exactly once
RequestLevels ==
  {extract_and_process_profile_data(Profiles[j])["level"] : j \in 1..Len(Profiles)}
C14_FanInBarrier ==
  /\ [](/\ \A i, j \in Cohorts : task[i].level = task[j].level => i = j
        /\ pc = "fanout" => {task[i].level : i \in Cohorts} = RequestLevels
        /\ Answered => /\ \A i \in Cohorts : task[i].pc = "done"
                       /\ agg.total_players = TotalPlayers
                       /\ agg.overall_risk_score[1] =
                            TotalOutliers * agg.overall_risk_score[2])
  /\ [][(pc = "fanout" /\ pc' = "done") =>
          /\ \A i \in Cohorts : task[i].pc \in {"done", "raised"}
          /\ task' = task]_vars
C14_Witness ==
  /\ Answered
  /\ Len(task) >= 2
  /\ \E i, j \in Cohorts : /\ i # j /\ task[i].scored /\ task[j].scored
                            /\ task[i].result[1] > 0 /\ task[j].result[1] > 0
  /\ Len(Profiles) > Len(task)

\* C15: with the request, the store contents and the scorer's outcome fixed,
\* every interleaving of the cohort tasks gives each level the same result,
\* the request the same response, and leaves the same store contents
RefCombined(lv) ==
  process_profiles(Profiles).level_dict[lv]
    \o fetch_players(store, now, fetch_keys(store, now, lv))
RefRaises(lv) == EnoughPlayers(RefCombined(lv)) /\ ~FitOk(RefCombined(lv))
RefResult(lv) ==
  IF EnoughPlayers(RefCombined(lv))
  THEN ScoredResult(RefCombined(lv),
         apply_isolation_forest(RefCombined(lv),
                                CHOOSE K \in DetForest(RefCombined(lv)) : TRUE))
  ELSE SkippedResult
RefResponse ==
  IF \E i \in 1..Len(order) : RefRaises(order[i])
  THEN [status |-> 500, risk |-> "", error |-> "exception"]
  ELSE [status |-> 200, error |-> "",
        risk |-> Classify(OverallRisk(Accumulate(
                   [i \in 1..Len(order) |-> RefResult(order[i])], 1, 0, Zero)))]
C15_OrderInsensitive ==
  /\ [](/\ \A i \in Cohorts :
              /\ Returned(i) => task[i].result = RefResult(task[i].level)
              /\ task[i].pc = "raised" => RefRaises(task[i].level)
        /\ (pc = "done" /\ Len(task) > 0) => response = RefResponse)
  /\ [][store' = store]_vars
C15_Witness ==
  /\ Answered
  /\ \E i, j \in Cohorts :
        /\ i # j
        /\ task[i].scored /\ task[j].scored
        /\ Len(task[i].redis_players) > 0 /\ Len(task[j].redis_players) > 0
        /\ task[i].result[1] > 0
        /\ task[i].result # task[j].result

\* C16: a step of a cohort task creates or changes only keys (level, id) of
\* that cohort's incoming records, each with the record's value and a fresh
\* expiration; every other entry, the ones of players known only from the
\* fetched set included, keeps its value and its expiration, and no entry is
\* removed other than by expiring
IncomingKeys(t) ==
  {redis_key(t.level, Get(t.players[j], "id", None)) :
     j \in {n \in 1..Len(t.players) : Truthy(Get(t.players[n], "id", None))}}
C16_OnlyIncomingWritten ==
  [][/\ \A k \in DOMAIN store' :
          (k \notin DOMAIN store \/ store'[k] # store[k]) =>
             \E i \in Cohorts :
                /\ task'[i] # task[i]
                /\ k \in IncomingKeys(task[i])
                /\ store'[k].exp = now + expiration_time
     /\ \A k \in DOMAIN store \ DOMAIN store' : store[k].exp <= now']_vars
C16_Witness ==
  \E i \in Cohorts :
     /\ task[i].pc = "done" /\ task[i].scored
     /\ IncomingKeys(task[i]) \subseteq DOMAIN written
     /\ IncomingKeys(task[i]) # {}
     /\ \E n \in 1..Len(task[i].keys) :
           /\ task[i].keys[n] \notin IncomingKeys(task[i])
           /\ task[i].keys[n] \in DOMAIN store
           /\ store[task[i].keys[n]].exp = TickSeconds

\* C17: a cohort whose merged size is below 10 performs no save: its task
\* returns without a SETEX, the step that returns leaves the store as it was,
\* and when it is the only cohort nothing at all has been written
C17_BelowFloorNoSave ==
  /\ [](/\ \A i \in Cohorts :
              (task[i].pc = "done" /\ Merged(task[i]) < min_players_required) =>
                 ~task[i].scored /\ task[i].idx = 1
        /\ (Len(task) = 1 /\ task[1].pc = "done"
              /\ Merged(task[1]) < min_players_required) => DOMAIN written = {})
  /\ [][\A i \in Cohorts :
          (task'[i] # task[i] /\ task'[i].pc = "done"
             /\ Merged(task'[i]) < min_players_required) =>
               store' = store /\ calls'.setex = calls.setex]_vars
C17_Witness ==
  /\ Len(task) = 1
  /\ task[1].pc = "done"
  /\ Merged(task[1]) < min_players_required
  /\ Len(task[1].redis_players) > 0
  /\ IncomingKeys(task[1]) # {}
  /\ IncomingKeys(task[1]) \cap DOMAIN store = {}
  /\ calls.setex = 0

\* C18: under fair scheduling every request that has a profiles key comes to
\* a state where all its cohort tasks have finished and the response is
\* there, and a response, once produced, is never replaced
Finished ==
  /\ pc = "done"
  /\ response.status \in {200, 500}
  /\ \A i \in Cohorts : task[i].pc \in {"done", "raised"}
C18_Terminates ==
  /\ <>(NoProfilesKey \/ Finished)
  /\ [][response # NoResponse => response' = response]_vars
C18_Witness ==
  /\ Finished
  /\ Len(task) >= 2
  /\ \E i \in Cohorts : task[i].pc = "raised"
  /\ \E i \in Cohorts : task[i].pc = "done" /\ task[i].scored
  /\ now > 0

\* C19: the merged view of a cohort is its incoming records followed by the
\* records fetched for its level, equal records kept; a scored cohort's
\* player count is the number of incoming records plus the number fetched
Distinct(records) == Cardinality({records[n] : n \in 1..Len(records)})
C19_PlainConcatenation ==
  \A i \in Cohorts :
     /\ (Returned(i) \/ task[i].scored) =>
           task[i].combined = task[i].players \o task[i].redis_players
     /\ (Returned(i) /\ task[i].scored) =>
           task[i].result[2] = Len(task[i].players) + Len(task[i].redis_players)
C19_Witness ==
  \E i \in Cohorts :
     /\ task[i].pc = "done" /\ task[i].scored
     /\ \E j \in 1..Len(Profiles) :
           /\ ~ExtractRaises(Profiles[j])
           /\ extract_and_process_profile_data(Profiles[j])["level"] = task[i].level
           /\ "id" \in DOMAIN Profiles[j]
           /\ \E n \in 1..Len(task[i].keys) :
                 /\ task[i].keys[n] = redis_key(task[i].level, Profiles[j]["id"])
                 /\ task[i].keys[n] \in DOMAIN store
                 /\ Eval(store[task[i].keys[n]].val) \in
                       {task[i].players[m] : m \in 1..Len(task[i].players)}
     /\ Len(task[i].redis_players) = 2
     /\ task[i].result[2] = Len(task[i].players) + 2
     /\ Distinct(task[i].combined) < task[i].result[2]

\* C20: fetch lists the keys and reads the values in a later step; an entry
\* that is gone by then is left out of the result, which holds no null record
\* and as many records as listed keys still have a value; with the store up
\* neither step raises, and neither step creates, changes or deletes an entry
StillThere(t) ==
  {n \in 1..Len(t.keys) :
     /\ t.keys[n] \in DOMAIN store
     /\ store[t.keys[n]].exp > now
     /\ store[t.keys[n]].val # EmptyString}
C20_FetchRobustReadOnly ==
  [][\A i \in 1..Len(task) :
       (task[i].pc \in {"keys", "get"} /\ task'[i] # task[i]) =>
          /\ store' = store
          /\ storeUp => task'[i].pc # "raised"
          /\ (storeUp /\ task[i].pc = "get") =>
                /\ Len(task'[i].redis_players) = Cardinality(StillThere(task[i]))
                /\ \A n \in 1..Len(task'[i].redis_players) :
                      /\ task'[i].redis_players[n] # EmptyDict
                      /\ \E m \in StillThere(task[i]) :
                            task'[i].redis_players[n] = Eval(store[task[i].keys[m]].val)]_vars
C20_Witness ==
  \E i \in 1..Len(task) :
     /\ task[i].pc \in {"score", "save", "done"}
     /\ now > 0
     /\ Len(task[i].keys) = 2
     /\ Len(task[i].redis_players) = 1
     /\ \E n \in 1..Len(task[i].keys) : task[i].keys[n] \notin DOMAIN store
     /\ \A n \in 1..Len(task[i].keys) :
           task[i].keys[n] \in DOMAIN store => store[task[i].keys[n]].val # EmptyString

====
